---- MODULE Spec2Model ----
(***************************************************************************)
(* A model of random_permutation/permutation.py: the RandomPermutation     *)
(* object (max, seed, ciphers, a, b), its Feistel map, the cycle walk and  *)
(* the three generator functions __getitem__, __iter__ and the slice       *)
(* branch of __getitem__.                                                  *)
(*                                                                         *)
(* Python integers are unbounded and TLC's are 32 bits wide, so a length   *)
(* is kept as a two-limb number <<hi, lo>> = hi * 2^26 + lo.  Every length *)
(* the operations are run on has hi = 0.                                   *)
(***************************************************************************)
EXTENDS Integers, Sequences, FiniteSets, TLC

\* ---------------------------------------------------------------- bounds
MaxLen == 4          \* lengths 1..MaxLen are constructed and operated on
MaxRounds == 3       \* num_ciphers ranges over 1..MaxRounds
MaxSeed == 0         \* seeds 0..MaxSeed
MaxScramble == 0     \* a block encrypts to a value in -1..MaxScramble
MaxOver == 2         \* indexes up to max + MaxOver are tried
MaxSide == 3         \* the Feistel map is applied for a = b in 1..MaxSide
MaxCtorLen == 40     \* the constructor is run on lengths 1..MaxCtorLen ...
MaxBigOffset == 3    \* ... and on 2^52 .. 2^52 + MaxBigOffset

\* Python's None, and an argument that may be None: <<>> or <<value>>
None == <<>>

Some(v) == <<v>>

\* ------------------------------------------------- two-limb arithmetic
Base == 2^26
HalfBase == 2^13

Big(n) == <<n \div Base, n % Base>>

BigLeq(x, y) == x[1] < y[1] \/ (x[1] = y[1] /\ x[2] <= y[2])

BigLess(x, y) == x[1] < y[1] \/ (x[1] = y[1] /\ x[2] < y[2])

\* x * y for 0 <= x, y < 2^27, as a two-limb number
BigMul(x, y) ==
  LET x1 == x \div HalfBase
      x0 == x % HalfBase
      y1 == y \div HalfBase
      y0 == y % HalfBase
      cross == x1 * y0 + x0 * y1
      low == (cross % HalfBase) * HalfBase + x0 * y0
  IN  <<x1 * y1 + cross \div HalfBase + low \div Base, low % Base>>

\* x - y as an integer, for y <= x < y + 2^31
BigDiff(x, y) == (x[1] - y[1]) * Base + (x[2] - y[2])

\* ------------------------------------------- math.ceil(math.sqrt(n))
RECURSIVE ISqrtSearch(_, _, _)
ISqrtSearch(n, lo, hi) ==
  IF lo = hi THEN lo
  ELSE LET mid == (lo + hi + 1) \div 2
       IN  IF BigLeq(BigMul(mid, mid), n) THEN ISqrtSearch(n, mid, hi)
           ELSE ISqrtSearch(n, lo, mid - 1)

\* floor of the real square root of n, n < 2^53
ISqrt(n) == ISqrtSearch(n, 0, 2 * Base - 1)

RECURSIVE Log2(_)
Log2(k) == IF k <= 1 THEN 0 ELSE 1 + Log2(k \div 2)

MantBits == 53

\* math.sqrt on an integer n < 2^53 (exactly a double): the double nearest
\* to the real square root, reported as <<k, exact>>: the result is the
\* integer k = ISqrt(n) when exact, and lies in (k, k+1] otherwise.  With
\* d = n - k^2 and 2^e <= k < 2^(e+1), doubles next to k are 2^(e-52)
\* apart, so the root k + d/(2k) - ... rounds to k iff
\* d * 2^(MantBits-1-e) <= k.
FloatSqrt(n) ==
  LET k == ISqrt(n)
      d == BigDiff(n, BigMul(k, k))
      shift == MantBits - 1 - Log2(k)
      slack == IF k = 0 \/ shift > 26 THEN 0 ELSE k \div (2^shift)
  IN  <<k, d <= slack>>

\* math.ceil of the double FloatSqrt reports
FloatCeil(f) == IF f[2] THEN f[1] ELSE f[1] + 1

CeilSqrt(n) == FloatCeil(FloatSqrt(n))


\* ------------------------------------------------------------- state
VARIABLES
  max,      \* self.max: the length, a two-limb number
  seed,     \* self.seed
  ciphers,  \* self.ciphers: the list of Cipher objects, each one its key
  a,        \* self.a
  b,        \* self.b
  aes,      \* the block cipher: key -> block -> block, blocks as signed ints
  gen,      \* the generator object the client is driving, or NoGenerator
  outcome   \* what the client's latest call evaluated to

vars == <<max, seed, ciphers, a, b, aes, gen, outcome>>

\* the length as an integer; every length the operations run on is below 2^26
N == max[1] * Base + max[2]

ScrambleVals == -1 .. MaxScramble

\* ------------------------------------------------- construction
\* sha512(rng.getrandbits(128).to_bytes(...)).digest()[:16] for the draw-th
\* draw of random.Random(seed): a term over the seed and the draw number
Key(sd, draw) == [sha512 |-> [seed |-> sd, draw |-> draw]]

make_ciphers(sd, num_ciphers) == [j \in 1 .. num_ciphers |-> Key(sd, j - 1)]

\* RandomPermutation.__init__
NewPermutation(length, sd, num_ciphers) ==
  LET side == CeilSqrt(length)
  IN  [max |-> length, seed |-> sd,
       ciphers |-> make_ciphers(sd, num_ciphers), a |-> side, b |-> side]

\* the encryptions the ciphers of p can be asked for while 0 <= r < a
CipherTables(p) ==
  [{p.ciphers[j] : j \in 1 .. Len(p.ciphers)} -> [0 .. p.a - 1 -> ScrambleVals]]

\* --------------------------------------------------------- _feistel
\* _scramble: the signed integer the cipher encrypts num's block to
Scramble(cipher, num) == aes[cipher][num]

\* a quotient truncated toward zero, where divmod floors
SplitTruncated(num) ==
  <<IF num < 0 THEN 0 - ((0 - num) \div a) ELSE num \div a, num % a>>

\* divmod(num, self.a): Python floors, as \div and % do
Split(num) == <<num \div a, num % a>>

\* a round that adds the scrambled half to the right half, not the left
RoundOnRight(j, l, r) ==
  LET tmp == IF j % 2 = 0 THEN (r + Scramble(ciphers[j + 1], r)) % a
             ELSE (r + Scramble(ciphers[j + 1], r)) % b
  IN  <<r, tmp>>

\* one pass of the loop body for the j-th cipher (j counts from 0)
Round(j, l, r) ==
  LET tmp == IF j % 2 = 0 THEN (l + Scramble(ciphers[j + 1], r)) % a
             ELSE (l + Scramble(ciphers[j + 1], r)) % b
  IN  <<r, tmp>>

RECURSIVE Rounds(_, _)
Rounds(j, lr) ==
  IF j = Len(ciphers) THEN lr ELSE Rounds(j + 1, Round(j, lr[1], lr[2]))

Combine(lr) ==
  IF Len(ciphers) % 2 = 1 THEN a * lr[1] + lr[2] ELSE a * lr[2] + lr[1]

Feistel(num) == Combine(Rounds(0, Split(num)))


\* ------------------------------------------------ generator objects
\* __getitem__ contains a yield (in its slice branch) and so does __iter__:
\* both are generator functions.  Calling one runs none of its body and
\* returns a new generator object; the body runs under next().
\* kind is the argument's type: "int", "slice", or "iter" for __iter__.
NewGenerator(id, fn, kind, arg) ==
  [id |-> id, fn |-> fn, kind |-> kind, arg |-> arg, pc |-> "created", index |-> None,
   from |-> None, steps |-> 0, todo |-> <<>>, out |-> <<>>]

Slice(start, stop, step) == [start |-> start, stop |-> stop, step |-> step]

\* isinstance(index, slice)
IsSlice(g) == g.kind = "slice"

NoGenerator ==
  [id |-> 0, fn |-> "none", kind |-> "none", arg |-> None, pc |-> "none",
   index |-> None, from |-> None, steps |-> 0, todo |-> <<>>, out |-> <<>>]

\* Python's `x or d`: d when x is None or 0
Or(x, d) == IF x = None \/ x = Some(0) THEN d ELSE x[1]

\* list(range(start, stop, step)), step # 0
Range(start, stop, step) ==
  LET count == IF step > 0 /\ stop > start
                 THEN (stop - start + step - 1) \div step
               ELSE IF step < 0 /\ start > stop
                 THEN (start - stop - step - 1) \div (0 - step)
               ELSE 0
  IN  [i \in 1 .. count |-> start + (i - 1) * step]

\* the indexes the for loop of g's body runs over
Indexes(g) ==
  IF g.fn = "__iter__" THEN Range(0, N, 1)
  ELSE Range(Or(g.arg.start, 0), Or(g.arg.stop, N), Or(g.arg.step, 1))

\* an exit test that lets max itself through
InRangeInclusive(index) == index <= N

\* the loop's exit test `index < self.max`
InRange(index) == index < N

\* the walk loop as a function: the first of feistel(x), feistel(feistel(x)),
\* ... below max; when fuel + 1 applications give none, the index the loop
\* is then at (which is not below max)
RECURSIVE WalkFrom(_, _)
WalkFrom(x, fuel) ==
  LET index == Feistel(x)
  IN  IF InRange(index) \/ fuel = 0 THEN index ELSE WalkFrom(index, fuel - 1)

Walk(x) == WalkFrom(x, a * b)

\* list(p) as the walk gives it
Permuted == [i \in 1 .. N |-> Walk(i - 1)]

\* the walk's step count is kept up to a * b + 1
StepCap == a * b + 1

Call(call, arg, type, val) == [call |-> call, arg |-> arg, type |-> type, val |-> val]

\* the client is not inside a call
Idle == gen.pc # "walk"

LookupIndexes == (0 - a * b) .. (N + 1)

SliceArgs ==
  {Slice(start, stop, step) :
     start \in {None, Some(1)},
     stop \in {None, Some(-1), Some(0), Some(N + MaxOver)},
     step \in {None, Some(2)}}

\* ----------------------------------------------------------- actions
\* p[index], index an integer
GetItem(index) ==
  /\ Idle
  /\ gen' = NewGenerator(1, "__getitem__", "int", index)
  /\ outcome' = Call("getitem", index, "generator", gen'.id)
  /\ UNCHANGED <<max, seed, ciphers, a, b, aes>>

\* p[start:stop:step]
GetSlice(sl) ==
  /\ Idle
  /\ gen' = NewGenerator(1, "__getitem__", "slice", sl)
  /\ outcome' = Call("getitem", sl, "generator", gen'.id)
  /\ UNCHANGED <<max, seed, ciphers, a, b, aes>>

\* iter(p)
Iter ==
  /\ Idle
  /\ gen' = NewGenerator(1, "__iter__", "iter", None)
  /\ outcome' = Call("iter", None, "generator", gen'.id)
  /\ UNCHANGED <<max, seed, ciphers, a, b, aes>>

\* the for loop takes its next index off todo, or the body returns
LoopOver(todo) ==
  IF todo = <<>>
    THEN /\ gen' = [gen EXCEPT !.pc = "returned", !.todo = <<>>]
         /\ outcome' = Call("next", gen.id, "StopIteration", None)
    ELSE /\ gen' = [gen EXCEPT !.pc = "walk", !.index = Head(todo),
                               !.from = Head(todo), !.steps = 0,
                               !.todo = Tail(todo)]
         /\ outcome' = Call("next", gen.id, "running", None)

\* the first next(gen): the body runs from its top
NextStart ==
  /\ gen.pc = "created"
  /\ IF gen.fn = "__getitem__" /\ ~IsSlice(gen)
       THEN IF gen.arg >= N
              THEN /\ gen' = [gen EXCEPT !.pc = "raised"]
                   /\ outcome' = Call("next", gen.id, "IndexError", None)
              ELSE /\ gen' = [gen EXCEPT !.pc = "walk", !.index = gen.arg,
                                         !.from = gen.arg, !.steps = 0]
                   /\ outcome' = Call("next", gen.id, "running", None)
       ELSE LoopOver(Indexes(gen))
  /\ UNCHANGED <<max, seed, ciphers, a, b, aes>>

\* a later next(gen): the body resumes after its yield, at the break
NextResume ==
  /\ gen.pc = "yielded"
  /\ LoopOver(gen.todo)
  /\ UNCHANGED <<max, seed, ciphers, a, b, aes>>

\* one pass of `while True: index = self._feistel(index); if index < self.max`
WalkStep ==
  /\ gen.pc = "walk"
  /\ LET index == Feistel(gen.index)
         steps == IF gen.steps < StepCap THEN gen.steps + 1 ELSE StepCap
     IN  IF InRange(index)
           THEN IF gen.fn = "__getitem__" /\ ~IsSlice(gen)
                  THEN /\ gen' = [gen EXCEPT !.pc = "returned", !.index = index,
                                             !.steps = steps]
                       /\ outcome' = Call("next", gen.id, "StopIteration", index)
                  ELSE /\ gen' = [gen EXCEPT !.pc = "yielded", !.index = index,
                                             !.steps = steps,
                                             !.out = Append(gen.out, index)]
                       /\ outcome' = Call("next", gen.id, "int", index)
           ELSE /\ gen' = [gen EXCEPT !.index = index, !.steps = steps]
                /\ UNCHANGED outcome
  /\ UNCHANGED <<max, seed, ciphers, a, b, aes>>

\* p[i] == p[j], as the tests evaluate it: two calls, two generator objects,
\* compared by identity
Compare(i, j) ==
  /\ Idle
  /\ LET left == NewGenerator(1, "__getitem__", "int", i)
         right == NewGenerator(2, "__getitem__", "int", j)
     IN  outcome' = Call("compare", <<i, j>>, "bool", left.id = right.id)
  /\ gen' = NoGenerator
  /\ UNCHANGED <<max, seed, ciphers, a, b, aes>>

\* _feistel applied to one integer
ApplyFeistel(num) ==
  /\ outcome.call = "__init__"
  /\ outcome' = Call("_feistel", <<num>>, "int", <<Feistel(num)>>)
  /\ UNCHANGED <<max, seed, ciphers, a, b, aes, gen>>

\* _feistel applied to two integers of [0, a*b)
ApplyFeistelPair(x, y) ==
  /\ outcome.call = "__init__"
  /\ outcome' = Call("_feistel", <<x, y>>, "int", <<Feistel(x), Feistel(y)>>)
  /\ UNCHANGED <<max, seed, ciphers, a, b, aes, gen>>

\* ------------------------------------------------------ specification
Init ==
  \E length \in 1 .. MaxLen, sd \in 0 .. MaxSeed, num_ciphers \in 1 .. MaxRounds :
    LET p == NewPermutation(Big(length), sd, num_ciphers)
    IN  /\ max = p.max /\ seed = p.seed /\ ciphers = p.ciphers
        /\ a = p.a /\ b = p.b
        /\ aes \in CipherTables(p)
        /\ gen = NoGenerator
        /\ outcome = Call("__init__", <<length, sd, num_ciphers>>, "RandomPermutation", None)

Next ==
  \/ \E index \in LookupIndexes : GetItem(index)
  \/ \E sl \in SliceArgs : GetSlice(sl)
  \/ Iter
  \/ NextStart
  \/ NextResume
  \/ WalkStep
  \/ \E i \in LookupIndexes, j \in 0 .. N - 1 : Compare(i, j)
  \/ \E num \in (0 - a * b) .. (2 * a * b - 1) : ApplyFeistel(num)

Spec == Init /\ [][Next]_vars


\* ------------------------------------- the Feistel map on its own
InitFeistel ==
  \E side \in 1 .. MaxSide, sd \in 0 .. MaxSeed, num_ciphers \in 1 .. MaxRounds :
    LET p == NewPermutation(Big(side * side), sd, num_ciphers)
    IN  /\ max = p.max /\ seed = p.seed /\ ciphers = p.ciphers
        /\ a = p.a /\ b = p.b
        /\ aes \in CipherTables(p)
        /\ gen = NoGenerator
        /\ outcome = Call("__init__", <<side * side, sd, num_ciphers>>, "RandomPermutation", None)

NextFeistel ==
  \/ \E num \in (0 - a * b) .. (2 * a * b - 1) : ApplyFeistel(num)
  \/ \E x \in 0 .. a * b - 1, y \in 0 .. a * b - 1 : x < y /\ ApplyFeistelPair(x, y)

SpecFeistel == InitFeistel /\ [][NextFeistel]_vars

\* --------------------------------------------- the constructor on its own
CtorLengths ==
  {Big(n) : n \in 1 .. MaxCtorLen} \cup {<<Base, d>> : d \in 0 .. MaxBigOffset}

\* RandomPermutation(length, sd, num_ciphers); no block is encrypted
Construct(length, sd, num_ciphers) ==
  /\ outcome.call = "none"
  /\ LET p == NewPermutation(length, sd, num_ciphers)
     IN  /\ max' = p.max /\ seed' = p.seed /\ ciphers' = p.ciphers
         /\ a' = p.a /\ b' = p.b
  /\ outcome' = Call("__init__", <<length, sd, num_ciphers>>, "RandomPermutation", None)
  /\ UNCHANGED <<aes, gen>>

InitConstruct ==
  /\ max = None /\ seed = None /\ ciphers = None /\ a = None /\ b = None
  /\ aes = None
  /\ gen = NoGenerator
  /\ outcome = Call("none", None, "none", None)

NextConstruct ==
  \E length \in CtorLengths, sd \in 0 .. MaxSeed, num_ciphers \in 1 .. MaxRounds :
    Construct(length, sd, num_ciphers)

SpecConstruct == InitConstruct /\ [][NextConstruct]_vars


\* ------------------------------------------------------------ properties
\* a walk of the generator has ended: gen.index is what it produced
WalkEnded ==
  \/ gen.pc = "yielded"
  \/ gen.pc = "returned" /\ (gen.kind = "int" \/ gen.out # <<>>)

\* the call p[index] with an integer index has just been evaluated
LookedUp == outcome.call = "getitem" /\ gen.kind = "int"

FullSlice == Slice(None, None, None)

\* C1: the values p[0], ..., p[N-1] are integers of [0, N), as are the values
\* the iteration produces, and each value of [0, N) is produced exactly once.
C1_Bijection ==
  /\ LookedUp /\ gen.arg \in 0 .. N - 1
       => outcome.type = "int" /\ outcome.val \in 0 .. N - 1
  /\ gen.fn = "__iter__" /\ gen.pc = "returned"
       => Len(gen.out) = N /\ {gen.out[i] : i \in 1 .. N} = 0 .. N - 1

\* C2: the call p[index] with index >= N raises IndexError itself, and the
\* call p[N-1] evaluates to an integer.
C2_OutOfRange ==
  LookedUp =>
    /\ gen.arg >= N => outcome.type = "IndexError"
    /\ gen.arg = N - 1 => outcome.type = "int"

\* C3: a walk that starts at an index of [0, N) ends after at most a*b
\* applications of the Feistel map, on a value of [0, N).
C3_WalkTerminates ==
  /\ gen.pc = "walk" /\ gen.from \in 0 .. N - 1 => gen.steps < a * b
  /\ WalkEnded /\ gen.from \in 0 .. N - 1
       => gen.steps <= a * b /\ gen.index \in 0 .. N - 1

\* C3 witness: a walk from inside [0, N) ended after leaving [0, N) twice
C3_Witness ==
  WalkEnded /\ gen.from \in 0 .. N - 1 /\ gen.steps >= 3

\* C4: the iteration produces N values, the i-th of them the value of p[i];
\* the full slice produces the same sequence.
C4_AccessPathsAgree ==
  /\ gen.fn = "__iter__" /\ gen.pc = "returned" => gen.out = Permuted
  /\ IsSlice(gen) /\ gen.arg = FullSlice /\ gen.pc = "returned" => gen.out = Permuted
  /\ LookedUp /\ gen.arg \in 0 .. N - 1
       => outcome.type = "int" /\ outcome.val = Permuted[gen.arg + 1]

\* C5: two lookups p[i] of the same index i of [0, N) compare equal.
C5_Deterministic ==
  outcome.call = "compare" /\ outcome.arg[1] = outcome.arg[2]
    => outcome.val = TRUE

\* C6: p[-1] == p[N-1].
C6_NegativeIndex ==
  outcome.call = "compare" /\ outcome.arg = <<-1, N - 1>>
    => outcome.val = TRUE

\* C7: list(p[:-1]) is the first N-1 elements of list(p).
C7_NegativeStop ==
  IsSlice(gen) /\ gen.arg = Slice(None, Some(-1), None) /\ gen.pc = "returned"
    => gen.out = SubSeq(Permuted, 1, N - 1)

\* C8: for a = b the Feistel map sends [0, a*b) into [0, a*b) and sends
\* distinct inputs to distinct outputs, whatever the round functions and
\* the parity of their number.
C8_FeistelBijection ==
  outcome.call = "_feistel" =>
    /\ \A k \in 1 .. Len(outcome.arg) :
         outcome.arg[k] \in 0 .. a * b - 1 => outcome.val[k] \in 0 .. a * b - 1
    /\ Len(outcome.arg) = 2 => outcome.val[1] # outcome.val[2]

\* C8 witness: two inputs went through an even number of rounds
C8_Witness ==
  /\ outcome.call = "_feistel" /\ Len(outcome.arg) = 2
  /\ Len(ciphers) % 2 = 0 /\ a >= 2

\* C9: a = b, (a-1)^2 < max <= a^2, and a*b exceeds max by fewer than 2*a.
C9_CeilSqrt ==
  outcome.call = "__init__" =>
    /\ a = b
    /\ BigLess(BigMul(a - 1, a - 1), max)
    /\ BigLeq(max, BigMul(a, b))
    /\ BigDiff(BigMul(a, b), max) < 2 * a

====
